---------------------------- MODULE Spec2Model ----------------------------
(***************************************************************************)
(* A model of python_service/xssSecure.py: the XSSSecurityAnalyzer.        *)
(*                                                                         *)
(* Strings are sequences of tokens.  A URL is a sequence of characters     *)
(* ("q", "=", "&", "+", ...) after one token for "https://x/test"; the     *)
(* five catalog payloads are atomic tokens (none is a substring of         *)
(* another, none is made of URL characters).  The score is kept in half    *)
(* units (score2 = 2 * self.score), since the code adds 0.5 steps.         *)
(***************************************************************************)
EXTENDS Integers, Sequences, FiniteSets, TLC

(***************************************************************************)
(* Bounds of the model.                                                    *)
(***************************************************************************)
MaxParams == 2
MaxForms == 2
MaxDirectives == 3
MaxContentLen == 4
MaxCalls == 2

None == "None"

Range(s) == { s[i] : i \in 1..Len(s) }

SeqsUpTo(S, n) == UNION { [1..k -> S] : k \in 0..n }

(***************************************************************************)
(* Python string operations, on token sequences.                           *)
(***************************************************************************)
\* s[i..] starts with p
MatchAt(s, p, i) ==
    /\ i + Len(p) - 1 <= Len(s)
    /\ \A k \in 1..Len(p) : s[i + k - 1] = p[k]

\* p in s
Contains(s, p) == \E i \in 1..(Len(s) + 1) : MatchAt(s, p, i)

\* s.startswith(p)
StartsWith(s, p) == MatchAt(s, p, 1)

\* s.replace(old, new): every non-overlapping occurrence, left to right
\* (old is never empty here: it always holds "=")
RECURSIVE ReplaceFrom(_, _, _, _)
ReplaceFrom(s, old, new, i) ==
    IF i > Len(s) THEN << >>
    ELSE IF MatchAt(s, old, i)
         THEN new \o ReplaceFrom(s, old, new, i + Len(old))
         ELSE << s[i] >> \o ReplaceFrom(s, old, new, i + 1)

StrReplace(s, old, new) == ReplaceFrom(s, old, new, 1)

\* s.split(sep), sep one token: always at least one piece
RECURSIVE SplitFrom(_, _, _, _)
SplitFrom(s, sep, i, cur) ==
    IF i > Len(s) THEN << cur >>
    ELSE IF s[i] = sep
         THEN << cur >> \o SplitFrom(s, sep, i + 1, << >>)
         ELSE SplitFrom(s, sep, i + 1, Append(cur, s[i]))

Split(s, sep) == SplitFrom(s, sep, 1, << >>)

\* s.strip(): leading and trailing blanks removed
RECURSIVE LStrip(_)
LStrip(s) == IF s # << >> /\ Head(s) = " " THEN LStrip(Tail(s)) ELSE s

RECURSIVE RStrip(_)
RStrip(s) ==
    IF s # << >> /\ s[Len(s)] = " " THEN RStrip(SubSeq(s, 1, Len(s) - 1)) ELSE s

Strip(s) == RStrip(LStrip(s))

\* sep.join(pieces)
RECURSIVE Join(_, _)
Join(pieces, sep) ==
    IF pieces = << >> THEN << >>
    ELSE IF Len(pieces) = 1 THEN pieces[1]
    ELSE pieces[1] \o << sep >> \o Join(Tail(pieces), sep)

(***************************************************************************)
(* generate_payloads: the catalog, in order.                               *)
(***************************************************************************)
generate_payloads ==
    << "<script>alert('XSS')</script>",
       "javascript:alert('XSS')",
       "<img src=x onerror=alert('XSS')>",
       "<svg onload=alert('XSS')>",
       "'-alert('XSS')-'" >>

(***************************************************************************)
(* urlparse(url).query and parse_qs.                                       *)
(***************************************************************************)
Base == "https://x/test"

\* urlparse(url).query: what follows the first "?" (no "#" in the alphabet)
RECURSIVE QueryOf(_)
QueryOf(u) ==
    IF u = << >> THEN << >>
    ELSE IF Head(u) = "?" THEN Tail(u)
    ELSE QueryOf(Tail(u))

\* unquote(s.replace('+', ' ')): no "%" in the alphabet, so only "+" decodes
Unquote(s) == [ i \in 1..Len(s) |-> IF s[i] = "+" THEN " " ELSE s[i] ]

\* index of the first "=" of a piece, 0 when it has none
RECURSIVE FirstEq(_, _)
FirstEq(s, i) ==
    IF i > Len(s) THEN 0
    ELSE IF s[i] = "=" THEN i
    ELSE FirstEq(s, i + 1)

\* parse_qsl with keep_blank_values=False: the decoded (name, value) pairs,
\* pieces without "=" or with a blank value dropped
RECURSIVE PairsOf(_)
PairsOf(pieces) ==
    IF pieces = << >> THEN << >>
    ELSE LET p == Head(pieces)
             e == FirstEq(p, 1)
         IN  IF e = 0 \/ e = Len(p)
             THEN PairsOf(Tail(pieces))
             ELSE << [ name |-> Unquote(SubSeq(p, 1, e - 1)),
                       value |-> Unquote(SubSeq(p, e + 1, Len(p))) ] >>
                  \o PairsOf(Tail(pieces))

parse_qsl(query) == PairsOf(Split(query, "&"))

\* parse_qs: name -> list of values, names in order of first appearance
RECURSIVE GroupPairs(_, _)
GroupPairs(pairs, acc) ==
    IF pairs = << >> THEN acc
    ELSE LET p == Head(pairs)
             at == { i \in 1..Len(acc) : acc[i].name = p.name }
         IN  IF at = {}
             THEN GroupPairs(Tail(pairs),
                             Append(acc, [ name |-> p.name, values |-> << p.value >> ]))
             ELSE LET i == CHOOSE j \in at : TRUE
                  IN  GroupPairs(Tail(pairs),
                                 [ acc EXCEPT ![i].values = Append(@, p.value) ])

parse_qs(query) == GroupPairs(parse_qsl(query), << >>)

\* line 168: url.replace(f"{param}={values[0]}", f"{param}={payload}")
TestUrl(u, param, value, payload) ==
    StrReplace(u, param \o << "=" >> \o value, param \o << "=", payload >>)


(***************************************************************************)
(* Findings and the scoring state threaded through the rule functions.     *)
(* A finding is its message, with the value an f-string puts in it.        *)
(***************************************************************************)
F(msg) == [ msg |-> msg, arg |-> "", n |-> 0 ]
FArg(msg, arg) == [ msg |-> msg, arg |-> arg, n |-> 0 ]
FNum(msg, n) == [ msg |-> msg, arg |-> "", n |-> n ]

\* self.score += d/2 ; self.findings.append(f)
Add(st, d2, f) == [ score2 |-> st.score2 + d2, findings |-> Append(st.findings, f) ]

\* `if value:` on headers.get(name): None (absent) and "" are both falsy.
\* A header the model keeps as a token sequence (CSP, HSTS) is << >> when it
\* is absent or empty: the code cannot tell the two apart.
Truthy(v) == v # None /\ v # ""
TruthySeq(v) == v # << >>

(***************************************************************************)
(* _analyze_csp: one pass over csp.split(';').                             *)
(***************************************************************************)
AnalyzeDirective(st, raw) ==
    LET directive == Strip(raw)
    IN  IF StartsWith(directive, << "default-src" >>)
        THEN IF Contains(directive, << "'none'" >>)
             THEN Add(st, 2, F("CSP uses 'default-src: none' - strict policy"))
             ELSE IF Contains(directive, << "'self'" >>)
                  THEN Add(st, 1, F("CSP uses 'default-src: self' - moderately strict"))
                  ELSE st
        ELSE IF StartsWith(directive, << "script-src" >>)
             THEN IF Contains(directive, << "'unsafe-inline'" >>)
                     \/ Contains(directive, << "'unsafe-eval'" >>)
                  THEN Add(st, 0, F("CSP allows unsafe scripts - consider removing 'unsafe-inline' and 'unsafe-eval'"))
                  ELSE Add(st, 2, F("CSP properly restricts script sources"))
             ELSE st

RECURSIVE AnalyzeDirectives(_, _)
AnalyzeDirectives(st, directives) ==
    IF directives = << >> THEN st
    ELSE AnalyzeDirectives(AnalyzeDirective(st, Head(directives)), Tail(directives))

_analyze_csp(st, csp) == AnalyzeDirectives(st, Split(csp, ";"))

_check_content_security_policy(st, h) ==
    IF TruthySeq(h.csp)
    THEN _analyze_csp(Add(st, 2, F("CSP header present - good")), h.csp)
    ELSE Add(st, 0, F("CSP header missing - consider implementing"))

(***************************************************************************)
(* The other five header rules.                                            *)
(***************************************************************************)
OneYear == 31536000

\* re.search(r'max-age=(\d+)', hsts): the first max-age of the value as a
\* one-element sequence, << >> when there is no match
RECURSIVE FirstMaxAge(_)
FirstMaxAge(hsts) ==
    IF hsts = << >> THEN << >>
    ELSE IF Head(hsts).t = "max-age" THEN << Head(hsts) >>
    ELSE FirstMaxAge(Tail(hsts))

HasToken(hsts, t) == \E i \in 1..Len(hsts) : hsts[i].t = t

_check_strict_transport_security(st, h) ==
    IF TruthySeq(h.hsts)
    THEN LET s1 == Add(st, 2, F("HSTS header present - good"))
             s2 == IF HasToken(h.hsts, "includeSubDomains")
                   THEN Add(s1, 1, F("HSTS includes subdomains")) ELSE s1
             s3 == IF HasToken(h.hsts, "preload")
                   THEN Add(s2, 1, F("HSTS preload ready")) ELSE s2
             max_age == FirstMaxAge(h.hsts)
         IN  IF max_age # << >>
             THEN IF max_age[1].n >= OneYear
                  THEN Add(s3, 1, F("HSTS max-age is at least one year"))
                  ELSE Add(s3, 0, FNum("HSTS max-age is {age} seconds - consider increasing to at least one year", max_age[1].n))
             ELSE s3
    ELSE Add(st, 0, F("HSTS header missing - consider implementing"))

\* str.upper and str.lower, on the header values of the model
Upper(v) ==
    CASE v = "deny" -> "DENY"
      [] v = "SameOrigin" -> "SAMEORIGIN"
      [] OTHER -> v

Lower(v) ==
    CASE v = "NoSniff" -> "nosniff"
      [] v = "No-Referrer" -> "no-referrer"
      [] OTHER -> v

_check_x_frame_options(st, h) ==
    IF Truthy(h.xfo)
    THEN LET s1 == Add(st, 2, FArg("X-Frame-Options header present: {x_frame_options}", h.xfo))
         IN  IF Upper(h.xfo) \in { "DENY", "SAMEORIGIN" }
             THEN Add(s1, 1, F("X-Frame-Options properly set to prevent clickjacking"))
             ELSE s1
    ELSE Add(st, 0, F("X-Frame-Options header missing - consider implementing to prevent clickjacking"))

_check_x_content_type_options(st, h) ==
    IF Truthy(h.xcto)
    THEN IF Lower(h.xcto) = "nosniff"
         THEN Add(st, 2, F("X-Content-Type-Options header properly set to 'nosniff'"))
         ELSE Add(st, 0, FArg("X-Content-Type-Options header present but not set to 'nosniff': {x_content_type_options}", h.xcto))
    ELSE Add(st, 0, F("X-Content-Type-Options header missing - consider implementing to prevent MIME type sniffing"))

_check_referrer_policy(st, h) ==
    IF Truthy(h.rp)
    THEN LET s1 == Add(st, 2, FArg("Referrer-Policy header present: {referrer_policy}", h.rp))
         IN  IF Lower(h.rp) \in { "no-referrer", "strict-origin-when-cross-origin" }
             THEN Add(s1, 1, F("Referrer-Policy set to a strict value"))
             ELSE s1
    ELSE Add(st, 0, F("Referrer-Policy header missing - consider implementing to control referrer information"))

_check_feature_policy(st, h) ==
    LET feature_policy == IF Truthy(h.fp) THEN h.fp ELSE h.pp
    IN  IF Truthy(feature_policy)
        THEN Add(st, 2, F("Feature-Policy/Permissions-Policy header present - good"))
        ELSE Add(st, 0, F("Feature-Policy/Permissions-Policy header missing - consider implementing to control browser features"))

\* check_headers after its first call: lines 26-30
CheckRestOfHeaders(st, h) ==
    _check_feature_policy(
      _check_referrer_policy(
        _check_x_content_type_options(
          _check_x_frame_options(
            _check_strict_transport_security(st, h), h), h), h), h)

(***************************************************************************)
(* Page content: a sequence of tokens, as the HTML parser and the regular  *)
(* expressions see it.  "<script>" is a script element without src,        *)
(* "<script src>" one with src; a form token stands for a <form> element   *)
(* with the attributes and inputs FormOf gives it.                         *)
(***************************************************************************)
FormToks == { "form:get", "form:post", "form:unnamed", "form:empty" }

FormOf(tok) ==
    CASE tok = "form:get" ->
           [ id |-> None, action |-> None, method |-> None,
             inputs |-> << [ name |-> "user", type |-> "text" ] >> ]
      [] tok = "form:post" ->
           [ id |-> "login", action |-> "/submit", method |-> "POST",
             inputs |-> << [ name |-> "csrf_token", type |-> "hidden" ],
                           [ name |-> "user", type |-> "text" ] >> ]
      [] tok = "form:unnamed" ->
           [ id |-> None, action |-> None, method |-> "get",
             inputs |-> << [ name |-> None, type |-> "text" ] >> ]
      [] tok = "form:empty" ->
           [ id |-> "empty", action |-> "/submit", method |-> "post",
             inputs |-> << >> ]

TextToks ==
    { "document.write", "Eval (", "innerHTML =", "onclick=", "setTimeout('",
      "setInterval('", "<script>", "<script src>", "&lt;script&gt;", "<newline>" }

\* soup.find_all('form'), in document order
RECURSIVE find_all_forms(_)
find_all_forms(content) ==
    IF content = << >> THEN << >>
    ELSE IF Head(content) \in FormToks
         THEN << FormOf(Head(content)) >> \o find_all_forms(Tail(content))
         ELSE find_all_forms(Tail(content))

\* len(soup.find_all('script', src=False))
InlineScripts(content) == Cardinality({ i \in 1..Len(content) : content[i] = "<script>" })

\* unsafe_js_patterns, in dict order: the tokens each pattern matches
\* (re.IGNORECASE, \s* between the name and the bracket) and its message
unsafe_js_patterns ==
    << [ toks |-> { "document.write" },
         message |-> "Usage of document.write detected - potential XSS risk" ],
       [ toks |-> { "Eval (" },
         message |-> "Usage of eval() detected - potential security risk" ],
       [ toks |-> { "innerHTML =" },
         message |-> "Direct manipulation of innerHTML detected - potential XSS risk" ],
       [ toks |-> { "onclick=" },
         message |-> "Inline event handlers detected - consider using addEventListener" ],
       [ toks |-> { "setTimeout('" },
         message |-> "Potentially unsafe use of setTimeout with string argument" ],
       [ toks |-> { "setInterval('" },
         message |-> "Potentially unsafe use of setInterval with string argument" ] >>

\* re.search(pattern, content, re.IGNORECASE)
SearchPattern(pat, content) == \E i \in 1..Len(content) : content[i] \in pat.toks

\* a scan that counts every match of a pattern (re.findall for re.search)
RECURSIVE ScanPatternsPerMatch(_, _, _)
ScanPatternsPerMatch(st, pats, content) ==
    IF pats = << >> THEN st
    ELSE LET hits == { i \in 1..Len(content) : content[i] \in Head(pats).toks }
             RECURSIVE Times(_, _)
             Times(s0, k) ==
                 IF k = 0 THEN s0 ELSE Times(Add(s0, -2, F(Head(pats).message)), k - 1)
         IN  ScanPatternsPerMatch(Times(st, Cardinality(hits)), Tail(pats), content)

\* lines 150-153: one test per pattern
RECURSIVE ScanPatterns(_, _, _)
ScanPatterns(st, pats, content) ==
    IF pats = << >> THEN st
    ELSE ScanPatterns(IF SearchPattern(Head(pats), content)
                      THEN Add(st, -2, F(Head(pats).message))
                      ELSE st,
                      Tail(pats), content)

IsTag(tok) == tok \in { "<script>", "<script src>" } \cup FormToks

\* re.search(r"<[^>]*>.*&lt;script&gt;", content): a tag, then on the same
\* line (. matches no newline) the encoded token
EncodedEvidence(content) ==
    \E i, j \in 1..Len(content) :
        /\ i < j
        /\ IsTag(content[i])
        /\ content[j] = "&lt;script&gt;"
        /\ \A k \in (i + 1)..(j - 1) : content[k] # "<newline>"

analyze_content(st, content) ==
    LET n == InlineScripts(content)
        s1 == IF n > 0
              THEN [ score2 |-> st.score2 - 2 * n,
                     findings |-> Append(st.findings,
                        FNum("Inline scripts detected ({n}) - consider moving to external files", n)) ]
              ELSE st
        s2 == ScanPatterns(s1, unsafe_js_patterns, content)
    IN  IF EncodedEvidence(content)
        THEN Add(s2, 2, F("Evidence of HTML encoding in output - good practice"))
        ELSE s2

\* re.compile(r'csrf', re.I) on an input's name
NameHasCsrf(name) == name \in { "csrf_token", "CSRFToken" }

HasCsrfInput(form) ==
    \E i \in 1..Len(form.inputs) :
        form.inputs[i].type = "hidden" /\ NameHasCsrf(form.inputs[i].name)

\* check_forms: one finding per form without a hidden csrf input
RECURSIVE CheckFormList(_, _)
CheckFormList(st, fs) ==
    IF fs = << >> THEN st
    ELSE CheckFormList(
           IF ~HasCsrfInput(Head(fs))
           THEN Add(st, 0, FArg("Form {id} lacks CSRF token - potential XSS risk",
                                IF Head(fs).id = None THEN "unknown" ELSE Head(fs).id))
           ELSE st,
           Tail(fs))

check_forms(st, content) == CheckFormList(st, find_all_forms(content))

(***************************************************************************)
(* generate_report: the verdict, the record it appends, what it returns.   *)
(***************************************************************************)
\* a verdict whose middle band starts at 1 (elif self.score >= 1)
OverallAssessmentFromOne(s2) ==
    IF s2 >= 4 THEN "Good XSS protection measures in place"
    ELSE IF s2 >= 2 THEN "Some XSS protection, but improvements needed"
    ELSE "Weak XSS protection - improvements recommended"

\* lines 204-208, on the score in half units
OverallAssessment(s2) ==
    IF s2 >= 4 THEN "Good XSS protection measures in place"
    ELSE IF s2 = 2 THEN "Some XSS protection, but improvements needed"
    ELSE "Weak XSS protection - improvements recommended"

\* the dict of lines 210-215; "findings" holds self.findings itself (the
\* list object, not a copy): FindingsOf reads it through the reference
ReportRecord(u, s2) ==
    [ kind |-> "report", url |-> u, score2 |-> s2,
      findings |-> "self.findings",
      overall_assessment |-> OverallAssessment(s2) ]

\* generate_report has no return statement
GenerateReportResult(report) == None

(***************************************************************************)
(* The HTTP client (self.session), a collaborator: what a request can get  *)
(* back.  An "echo" client answers with the query-parameter values of the  *)
(* request, verbatim; an "any" client answers anything, with any status,   *)
(* or raises a transport error.                                            *)
(***************************************************************************)
Raise == [ kind |-> "raise", status |-> "none", body |-> << >> ]

RECURSIVE ValuesOf(_)
ValuesOf(pairs) ==
    IF pairs = << >> THEN << >>
    ELSE Head(pairs).value \o ValuesOf(Tail(pairs))

\* the query-parameter values of a request: those of its URL, then those of
\* params= (a GET's data; a POST's data travels in the body)
EchoBody(req) ==
    ValuesOf(parse_qsl(QueryOf(req.url)))
      \o (IF req.method = "get" /\ req.names # {} THEN << req.value >> ELSE << >>)

OtherPayload(pl) ==
    IF pl = generate_payloads[1] THEN generate_payloads[2] ELSE generate_payloads[1]

Respond(cl, req) ==
    IF cl = "echo"
    THEN { [ kind |-> "response", status |-> "ok", body |-> EchoBody(req) ] }
    ELSE { [ kind |-> "response", status |-> st, body |-> b ] :
             st \in { "ok", "non2xx" },
             b \in { << >>, << req.value >>, << OtherPayload(req.value) >> } }
         \cup { Raise }

(***************************************************************************)
(* State.                                                                  *)
(***************************************************************************)
VARIABLES
    headers,          \* self.session.headers
    argUrl,           \* the url the caller analyses
    argContent,       \* the content the caller analyses
    client,           \* the behaviour of self.session
    maxCalls,         \* how many times the caller calls analyze
    url,              \* self.url
    score2,           \* 2 * self.score
    findings,         \* self.findings
    vulnerabilities,  \* self.vulnerabilities
    pc,               \* where the current analyze call stands
    calls,            \* analyze calls started
    params,           \* check_reflected_xss: parse_qs(parsed_url.query).items()
    pi,               \* index of the current parameter
    pj,               \* index of the current payload
    forms,            \* check_reflected_xss: soup.find_all("form")
    fi,               \* index of the current form
    payload,          \* check_form_xss: the loop variable
    response_text,    \* the last response body read
    formResult,       \* what check_form_xss returned
    exc,              \* the exception that ended the call, or None
    retval,           \* what analyze returned
    entry,            \* the session state the current call started from
    nGet,             \* GETs issued by the URL-parameter phase of this call
    nReflected,       \* of these, responses that held the payload sent
    lastRequest,      \* the last request issued
    lastStatus,       \* the status of its response
    lastRecorded,     \* whether a vulnerability was recorded for it
    scan,             \* the score and findings analyze_content started from
    probed            \* indices of the forms a request was issued for

env == << headers, argUrl, argContent, client, maxCalls >>
session == << url, score2, findings, vulnerabilities >>
probe == << params, pi, pj, forms, fi, payload, response_text, formResult >>
history == << entry, nGet, nReflected, lastRequest, lastStatus, lastRecorded, scan, probed >>
vars == << env, session, pc, calls, probe, exc, retval, history >>

NoRequest ==
    [ method |-> "none", url |-> << >>, names |-> {}, value |-> None,
      param |-> << >>, form |-> 0 ]

\* XSSSecurityAnalyzer.__init__, and the arguments of the calls to come
InitWith(H, U, C, K, N) ==
    /\ headers \in H
    /\ argUrl \in U
    /\ argContent \in C
    /\ client \in K
    /\ maxCalls \in N
    /\ url = << >>
    /\ score2 = 0
    /\ findings = << >>
    /\ vulnerabilities = << >>
    /\ pc = "idle"
    /\ calls = 0
    /\ params = << >>
    /\ pi = 0
    /\ pj = 0
    /\ forms = << >>
    /\ fi = 0
    /\ payload = None
    /\ response_text = << >>
    /\ formResult = None
    /\ exc = None
    /\ retval = "no call"
    /\ entry = [ score2 |-> 0, findings |-> << >>, vulnerabilities |-> << >> ]
    /\ nGet = 0
    /\ nReflected = 0
    /\ lastRequest = NoRequest
    /\ lastStatus = "none"
    /\ lastRecorded = FALSE
    /\ scan = [ score2 |-> 0, findings |-> << >> ]
    /\ probed = {}

(***************************************************************************)
(* analyze, statement by statement.                                        *)
(***************************************************************************)
\* line 16: a call of analyze(url, content) on the analyzer
Analyze ==
    /\ pc \in { "idle", "returned", "raised" }
    /\ calls < maxCalls
    /\ calls' = calls + 1
    /\ url' = argUrl
    /\ pc' = "csp"
    /\ exc' = None
    /\ retval' = "pending"
    /\ entry' = [ score2 |-> score2, findings |-> findings,
                  vulnerabilities |-> vulnerabilities ]
    /\ nGet' = 0
    /\ nReflected' = 0
    /\ lastRequest' = NoRequest
    /\ lastStatus' = "none"
    /\ lastRecorded' = FALSE
    /\ probed' = {}
    /\ UNCHANGED << env, score2, findings, vulnerabilities, probe, scan >>

Scored(st) ==
    /\ score2' = st.score2
    /\ findings' = st.findings

Session == [ score2 |-> score2, findings |-> findings ]

\* line 25
CheckCsp ==
    /\ pc = "csp"
    /\ Scored(_check_content_security_policy(Session, headers))
    /\ pc' = "headers"
    /\ UNCHANGED << env, url, vulnerabilities, calls, probe, exc, retval, history >>

\* lines 26-30
CheckHeaders ==
    /\ pc = "headers"
    /\ Scored(CheckRestOfHeaders(Session, headers))
    /\ pc' = "content"
    /\ UNCHANGED << env, url, vulnerabilities, calls, probe, exc, retval, history >>

\* line 18
AnalyzeContent ==
    /\ pc = "content"
    /\ Scored(analyze_content(Session, argContent))
    /\ scan' = Session
    /\ pc' = "csrf"
    /\ UNCHANGED << env, url, vulnerabilities, calls, probe, exc, retval, entry,
                    nGet, nReflected, lastRequest, lastStatus, lastRecorded, probed >>

\* line 19
CheckForms ==
    /\ pc = "csrf"
    /\ Scored(check_forms(Session, argContent))
    /\ pc' = "probe"
    /\ UNCHANGED << env, url, vulnerabilities, calls, probe, exc, retval, history >>

\* lines 175-177: the forms of the page; with none, check_reflected_xss
\* returns and analyze goes on to generate_report
EnterForms ==
    /\ forms' = find_all_forms(argContent)
    /\ fi' = 1
    /\ pc' = IF find_all_forms(argContent) = << >> THEN "report" ELSE "form"

\* lines 161-166
StartProbe ==
    /\ pc = "probe"
    /\ params' = parse_qs(QueryOf(url))
    /\ pi' = 1
    /\ pj' = 1
    /\ IF parse_qs(QueryOf(url)) = << >>
       THEN EnterForms
       ELSE pc' = "url" /\ UNCHANGED << forms, fi >>
    /\ UNCHANGED << env, session, calls, payload, response_text, formResult,
                    exc, retval, history >>

\* a transport error: nothing catches it, it ends analyze
Raised(kind) ==
    /\ pc' = "raised"
    /\ exc' = kind
    /\ retval' = "exception"

UrlVulnerability(param, u) == [ kind |-> "url_param", param |-> param, url |-> u ]

\* lines 167-172: one payload of one parameter
UrlProbe ==
    /\ pc = "url"
    /\ LET param == params[pi].name
           values == params[pi].values
           pl == generate_payloads[pj]
           test_url == TestUrl(url, param, values[1], pl)
           req == [ method |-> "get", url |-> test_url, names |-> {},
                    value |-> pl, param |-> param, form |-> 0 ]
       IN  \E r \in Respond(client, req) :
             /\ lastRequest' = req
             /\ lastStatus' = r.status
             /\ nGet' = nGet + 1
             /\ IF r.kind = "raise"
                THEN /\ Raised("TransportError")
                     /\ lastRecorded' = FALSE
                     /\ UNCHANGED << vulnerabilities, nReflected, params, pi, pj,
                                     forms, fi, response_text >>
                ELSE /\ response_text' = r.body
                     /\ lastRecorded' = Contains(r.body, << pl >>)
                     /\ nReflected' = nReflected + (IF Contains(r.body, << pl >>) THEN 1 ELSE 0)
                     /\ vulnerabilities' =
                          IF Contains(r.body, << pl >>)
                          THEN Append(vulnerabilities, UrlVulnerability(param, url))
                          ELSE vulnerabilities
                     /\ UNCHANGED << exc, retval, params >>
                     /\ IF pj < Len(generate_payloads)
                        THEN /\ pj' = pj + 1
                             /\ UNCHANGED << pi, pc, forms, fi >>
                        ELSE IF pi < Len(params)
                        THEN /\ pi' = pi + 1
                             /\ pj' = 1
                             /\ UNCHANGED << pc, forms, fi >>
                        ELSE /\ pj' = 1
                             /\ UNCHANGED pi
                             /\ EnterForms
    /\ UNCHANGED << env, url, score2, findings, calls, payload, formResult,
                    entry, scan, probed >>

\* line 184: the names of the form's named inputs
NamedInputs(form) ==
    { form.inputs[i].name : i \in { k \in 1..Len(form.inputs) : form.inputs[k].name # None } }

\* line 181: urljoin(url, form.get("action", ''))
Action(u, form) == IF form.action = None THEN u ELSE << "https://x/submit" >>

\* line 182: form.get('method', 'get').lower()
Method(form) ==
    IF form.method = None THEN "get"
    ELSE IF form.method = "POST" THEN "post"
    ELSE form.method

\* lines 183-190: one payload of one form
FormProbe ==
    /\ pc = "form"
    /\ LET form == forms[fi]
           pl == generate_payloads[pj]
           req == [ method |-> Method(form), url |-> Action(url, form),
                    names |-> NamedInputs(form), value |-> pl, param |-> << >>,
                    form |-> fi ]
       IN  /\ payload' = pl
           /\ lastRequest' = req
           /\ lastRecorded' = FALSE
           /\ probed' = probed \cup { fi }
           /\ \E r \in Respond(client, req) :
                /\ lastStatus' = r.status
                /\ IF r.kind = "raise"
                   THEN /\ Raised("TransportError")
                        /\ UNCHANGED << response_text, pj >>
                   ELSE /\ response_text' = r.body
                        /\ UNCHANGED << exc, retval >>
                        /\ IF pj < Len(generate_payloads)
                           THEN pj' = pj + 1 /\ UNCHANGED pc
                           ELSE pj' = 1 /\ pc' = "formcheck"
    /\ UNCHANGED << env, session, calls, params, pi, forms, fi, formResult,
                    entry, nGet, nReflected, scan >>

FormVulnerability(u) == [ kind |-> "form", url |-> u ]

\* lines 191-193: after the loop, then the function returns None
FormCheck ==
    /\ pc = "formcheck"
    /\ vulnerabilities' =
         IF Contains(response_text, << payload >>)
         THEN Append(vulnerabilities, FormVulnerability(url))
         ELSE vulnerabilities
    /\ lastRecorded' = Contains(response_text, << payload >>)
    /\ formResult' = None
    /\ pc' = "await"
    /\ UNCHANGED << env, url, score2, findings, calls, params, pi, pj, forms, fi,
                    payload, response_text, exc, retval, entry, nGet, nReflected,
                    lastRequest, lastStatus, scan, probed >>

\* whether `await v` can be evaluated: None is no awaitable
Awaitable(v) == v # None

\* line 178: await self.check_form_xss(...), on the value the call returned;
\* awaiting a value that is not awaitable raises TypeError
AwaitFormResult ==
    /\ pc = "await"
    /\ IF Awaitable(formResult)
       THEN /\ UNCHANGED << exc, retval, forms >>
            /\ IF fi < Len(forms)
               THEN fi' = fi + 1 /\ pc' = "form"
               ELSE UNCHANGED fi /\ pc' = "report"
       ELSE /\ Raised("TypeError")
            /\ UNCHANGED << forms, fi >>
    /\ UNCHANGED << env, session, calls, params, pi, pj, payload, response_text,
                    formResult, history >>

\* line 21 and lines 203-215: return self.generate_report()
GenerateReport ==
    /\ pc = "report"
    /\ vulnerabilities' = Append(vulnerabilities, ReportRecord(url, score2))
    /\ retval' = GenerateReportResult(ReportRecord(url, score2))
    /\ pc' = "returned"
    /\ UNCHANGED << env, url, score2, findings, calls, probe, exc, history >>

Next ==
    \/ Analyze
    \/ CheckCsp
    \/ CheckHeaders
    \/ AnalyzeContent
    \/ CheckForms
    \/ StartProbe
    \/ UrlProbe
    \/ FormProbe
    \/ FormCheck
    \/ AwaitFormResult
    \/ GenerateReport

(***************************************************************************)
(* Inputs: URLs, header sets and page contents.                            *)
(***************************************************************************)
ParamNames == { << "q" >>, << "x", "q" >> }
ParamValues == { << "1" >>, << "1", "+", "1" >>, << >> }

\* the URL with the given (name, value) pairs as its query string
UrlOf(pairs) ==
    IF pairs = << >> THEN << Base >>
    ELSE << Base, "?" >>
         \o Join([ i \in 1..Len(pairs) |-> pairs[i][1] \o << "=" >> \o pairs[i][2] ], "&")

Urls == { UrlOf(ps) : ps \in SeqsUpTo(ParamNames \X ParamValues, MaxParams) }

PlainUrl == UrlOf(<< >>)
Q1Url == UrlOf(<< << << "q" >>, << "1" >> >> >>)

NoHeaders ==
    [ csp |-> << >>, hsts |-> << >>, xfo |-> None, xcto |-> None, rp |-> None,
      fp |-> None, pp |-> None ]

\* a CSP directive: its name, then its sources, blank-separated
DirectiveNames == { "default-src", "script-src", "img-src" }
SourceLists == { << >>, << " ", "'none'" >>, << " ", "'self'" >>, << " ", "'unsafe-inline'" >> }
Directives == { << n >> \o src : n \in DirectiveNames, src \in SourceLists }

\* the header value: the directives joined by "; "
CspOf(ds) ==
    Join([ i \in 1..Len(ds) |-> IF i = 1 THEN ds[i] ELSE << " " >> \o ds[i] ], ";")

CspHeaders ==
    { [ NoHeaders EXCEPT !.csp = CspOf(ds) ] : ds \in SeqsUpTo(Directives, MaxDirectives) }

MaxAge(n) == [ t |-> "max-age", n |-> n ]
Flag(t) == [ t |-> t, n |-> 0 ]

HstsValues ==
    { << >>,
      << MaxAge(300) >>,
      << MaxAge(OneYear), Flag("includeSubDomains"), Flag("preload") >>,
      << Flag("includeSubDomains"), MaxAge(300), MaxAge(OneYear) >> }

RestHeaders ==
    { [ csp |-> << >>, hsts |-> hs, xfo |-> xf, xcto |-> xc, rp |-> rf,
        fp |-> pol[1], pp |-> pol[2] ] :
        hs \in HstsValues,
        xf \in { None, "deny", "ALLOW-FROM https://x" },
        xc \in { None, "NoSniff", "sniff" },
        rf \in { None, "No-Referrer", "unsafe-url" },
        pol \in { << None, None >>, << "", "camera=()" >>, << "camera 'none'", None >> } }

FormContents == SeqsUpTo(FormToks, MaxForms)
TextContents == SeqsUpTo(TextToks, MaxContentLen)
ScriptContents == { << >>, << "<script>" >>, << "<script>", "<script>", "<script>" >> }

(***************************************************************************)
(* Specifications: the same analyzer, over different sets of inputs.       *)
(***************************************************************************)
\* one call, every URL-parameter and form probe, with both clients
Init ==
    InitWith({ NoHeaders }, { PlainUrl, Q1Url }, FormContents, { "echo", "any" }, { 1 })

Spec == Init /\ [][Next]_vars

\* one call over every URL of the model
UrlInit ==
    InitWith({ NoHeaders }, Urls, { << >>, << "form:get" >> }, { "echo", "any" }, { 1 })

SpecUrl == UrlInit /\ [][Next]_vars

\* one call over every header set of the model
HeadersInit ==
    \/ InitWith(CspHeaders, { PlainUrl }, { << >> }, { "echo" }, { 1 })
    \/ InitWith(RestHeaders, { PlainUrl }, ScriptContents, { "echo" }, { 1 })
    \/ InitWith({ NoHeaders }, { Q1Url }, { << "form:get" >> }, { "echo" }, { 1 })

SpecHeaders == HeadersInit /\ [][Next]_vars

\* one call over every page text of the model
ContentInit ==
    \/ InitWith({ NoHeaders }, { PlainUrl }, TextContents, { "echo" }, { 1 })
    \/ InitWith({ NoHeaders }, { Q1Url }, { << "form:get" >> }, { "echo" }, { 1 })

SpecContent == ContentInit /\ [][Next]_vars

\* several calls on one analyzer, with the same arguments
SessionInit ==
    InitWith({ NoHeaders, [ NoHeaders EXCEPT !.xcto = "nosniff" ] },
             { PlainUrl, Q1Url },
             { << >>, << "<script>" >>, << "form:get" >> },
             { "echo", "any" }, { MaxCalls })

SpecSession == SessionInit /\ [][Next]_vars

(***************************************************************************)
(* Properties.                                                             *)
(***************************************************************************)
\* what the current call appended to self.vulnerabilities
NewVulnerabilities ==
    SubSeq(vulnerabilities, Len(entry.vulnerabilities) + 1, Len(vulnerabilities))

CountKind(vs, kind) == Cardinality({ i \in 1..Len(vs) : vs[i].kind = kind })

\* the records of the current call for URL parameter `name`
UrlRecordsFor(name) ==
    Cardinality({ i \in 1..Len(NewVulnerabilities) :
                    IF NewVulnerabilities[i].kind = "url_param"
                    THEN NewVulnerabilities[i].param = name
                    ELSE FALSE })

\* the URL-parameter phase ran to its end (no transport error cut it short)
UrlPhaseOver ==
    /\ pc \in { "form", "formcheck", "await", "report", "returned", "raised" }
    /\ ~(exc = "TransportError" /\ probed = {})

TargetParams == parse_qs(QueryOf(argUrl))

\* C1: when the URL-parameter phase has run to its end, one GET was issued for every
\* (parameter, payload) pair and one record appended for each response that
\* held its payload; with the echoing client and a target URL whose only
\* parameter is q, that makes exactly 5 records for q.
C1_UrlPhaseRecords ==
    UrlPhaseOver =>
        /\ nGet = Len(TargetParams) * Len(generate_payloads)
        /\ CountKind(NewVulnerabilities, "url_param") = nReflected
        /\ (client = "echo" /\ Len(TargetParams) = 1 /\ TargetParams[1].name = << "q" >>
              => UrlRecordsFor(<< "q" >>) = 5)

\* C2: no transport error escapes analyze, and no vulnerability is recorded
\* for an attempt whose response was not 2xx.
C2_TransportFailureTolerated ==
    /\ exc # "TransportError"
    /\ ~(lastStatus = "non2xx" /\ lastRecorded)

AllForms == 1..Len(find_all_forms(argContent))

\* C3: a form gets its record exactly when the last catalog payload is in the
\* last response body, at most one record per form, and once the call is
\* over (no transport error aside) every form of the page was probed.
C3_FormPhase ==
    /\ (pc = "await" =>
          (lastRecorded <=>
             Contains(response_text, << generate_payloads[Len(generate_payloads)] >>)))
    /\ CountKind(NewVulnerabilities, "form") <= Cardinality(probed)
    /\ (pc \in { "returned", "raised" } /\ exc # "TransportError" => probed = AllForms)

\* C4: no request is ever issued for a form without a named input.
C4_MalformedFormSkipped ==
    lastRequest.form # 0 => NamedInputs(find_all_forms(argContent)[lastRequest.form]) # {}

IsRecord(v) == v \notin { None, "no call", "pending", "exception" }

\* C5: a call that is over assembled the report exactly once, as the last
\* element of self.vulnerabilities, and returned it.
C5_ReportAssembledAndReturned ==
    pc \in { "returned", "raised" } =>
        /\ CountKind(NewVulnerabilities, "report") = 1
        /\ vulnerabilities[Len(vulnerabilities)].kind = "report"
        /\ IF IsRecord(retval)
           THEN retval = vulnerabilities[Len(vulnerabilities)]
           ELSE FALSE

LastReport == vulnerabilities[Len(vulnerabilities)]

Good == "Good XSS protection measures in place"
Some == "Some XSS protection, but improvements needed"
Weak == "Weak XSS protection - improvements recommended"

\* C6, as stated: at the report, 1.0 gives Some, 1.5 and 2.0 give Good,
\* 0.5 and -3 give Weak.
C6_VerdictAsClaimed ==
    pc = "returned" =>
        /\ (LastReport.score2 = 2 => LastReport.overall_assessment = Some)
        /\ (LastReport.score2 \in { 3, 4 } => LastReport.overall_assessment = Good)
        /\ (LastReport.score2 \in { 1, -6 } => LastReport.overall_assessment = Weak)

\* C6, amended: at the report, 1.0 gives Some, 2.0 gives Good, and 1.5, 0.5
\* and -3 give Weak.
C6_VerdictBoundaries ==
    pc = "returned" =>
        /\ (LastReport.score2 = 2 => LastReport.overall_assessment = Some)
        /\ (LastReport.score2 = 4 => LastReport.overall_assessment = Good)
        /\ (LastReport.score2 \in { 3, 1, -6 } => LastReport.overall_assessment = Weak)

\* a report with score 1.5 was assembled
C6_Witness == pc = "returned" /\ LastReport.score2 = 3

Occurrences(seq, x) == Cardinality({ i \in 1..Len(seq) : seq[i] = x })

\* C7: after the CSP rule of a first call the score is at most 3 and no
\* finding was emitted twice.
C7_CspCountedOnce ==
    pc = "headers" /\ calls = 1 =>
        /\ score2 <= 6
        /\ \A i \in 1..Len(findings) : Occurrences(findings, findings[i]) = 1

\* the findings analyze_content appended, and its score delta (half units)
ScanFindings == SubSeq(findings, Len(scan.findings) + 1, Len(findings))
ScanDelta2 == score2 - scan.score2

HasTok(tok) == \E i \in 1..Len(argContent) : argContent[i] = tok

SignatureFindings ==
    { i \in 1..Len(ScanFindings) :
        \E k \in 1..Len(unsafe_js_patterns) :
            ScanFindings[i].msg = unsafe_js_patterns[k].message }

\* each signature: one finding when a token of the text matches it, none
\* otherwise, whatever the number of matches
OncePerSignature ==
    \A k \in 1..Len(unsafe_js_patterns) :
        Occurrences(ScanFindings, F(unsafe_js_patterns[k].message))
          = IF \E t \in unsafe_js_patterns[k].toks : HasTok(t) THEN 1 ELSE 0

EvalAndWrite == HasTok("Eval (") /\ HasTok("document.write")

TwoFindings ==
    /\ Occurrences(ScanFindings, F("Usage of eval() detected - potential security risk")) = 1
    /\ Occurrences(ScanFindings, F("Usage of document.write detected - potential XSS risk")) = 1

\* C8, as stated: once per signature, and text with eval( and document.write
\* gets a score delta of at most -2 and the two findings.
C8_ScanAsClaimed ==
    pc = "csrf" =>
        /\ OncePerSignature
        /\ (EvalAndWrite => ScanDelta2 <= -4 /\ TwoFindings)

\* C8, amended: once per signature, each worth -1; text with eval( and
\* document.write gets the two findings, at most -2 from the signatures, and
\* a score delta of at most -1 (the HTML-encoding rule adds +1 when it fires,
\* each inline script -1).
C8_ScanOncePerSignature ==
    pc = "csrf" =>
        /\ OncePerSignature
        /\ ScanDelta2 = - 2 * Cardinality(SignatureFindings)
                        - 2 * InlineScripts(argContent)
                        + (IF EncodedEvidence(argContent) THEN 2 ELSE 0)
        /\ (EvalAndWrite =>
              /\ TwoFindings
              /\ Cardinality(SignatureFindings) >= 2
              /\ ScanDelta2 <= -2)

\* text with eval( twice and document.write was scanned
C8_Witness ==
    /\ pc = "csrf"
    /\ Occurrences(argContent, "Eval (") >= 2
    /\ HasTok("document.write")
    /\ ScanDelta2 = -4

\* C9: every analyze call starts from score 0 and empty findings and
\* vulnerabilities.
C9_FreshSessionPerCall ==
    /\ entry.score2 = 0
    /\ entry.findings = << >>
    /\ entry.vulnerabilities = << >>

\* the pairs of the test URL are those of the target URL, but for the value
\* of the probed parameter
PairsSubstituted(target, test, param, pl) ==
    /\ Len(test) = Len(target)
    /\ \A i \in 1..Len(target) :
         IF target[i].name = param
         THEN test[i].name = param
         ELSE test[i] = target[i]
    /\ \E i \in 1..Len(target) :
         target[i].name = param /\ test[i].value = << pl >>

\* C10: every test URL of the URL-parameter phase differs from the target
\* URL, holds the payload as the value of the probed parameter, and keeps
\* every other parameter's name and value.
C10_TestUrlSubstitutesOneValue ==
    lastRequest.method = "get" /\ lastRequest.form = 0 =>
        /\ lastRequest.url # url
        /\ PairsSubstituted(parse_qsl(QueryOf(url)), parse_qsl(QueryOf(lastRequest.url)),
                            lastRequest.param, lastRequest.value)

=============================================================================
